---- MODULE Spec2Model ----
(***************************************************************************)
(* Model of the two-stage sprite asset pipeline of space-it-tools:         *)
(*   stage one  sid_aseprite_converter  (sheet -> intermediate assets)     *)
(*   stage two  sid_asset_packer        (intermediate assets -> resources) *)
(*                                                                         *)
(* Strings are sequences of one-character strings, so that scanning,       *)
(* slicing, trimming and concatenation are computed as the code computes   *)
(* them.  A frame list (Vec<AsepriteFrameTuple>) is kept run-length        *)
(* encoded: a sequence of [frame, reps] runs standing for reps consecutive *)
(* copies of frame; FramesLen and FrameAt give len() and indexing.         *)
(***************************************************************************)
EXTENDS Integers, Sequences, FiniteSets, TLC

VARIABLES
    frame_name,   \* argument of from_aseprite_frame_name_to_animation_name
    tag_result,   \* [called, value]: whether it has returned, and its return value
    entries,      \* directory entries of the sheets input folder, in read_dir order
    failing,      \* namespaces of the assets folder whose writes fail (I/O error)
    assets_dir,   \* the form of the assets folder argument: "absolute" | "relative" |
                  \* "relative_missing" (relative, and no such folder at the start)
    images,       \* the image files outside the assets folder: path -> content
    next_entry,   \* index of the directory entry the stage-one driver handles next
    pc,           \* "stage1" | "stage1_done" | "stage1_panicked" |
                  \* "stage2" | "stage2_done" | "stage2_panicked"
    results,      \* per handled entry: what the loop body parsed, derived and emitted
    writes,       \* every write_to_folder call of stage one, in call order
    assets,       \* the assets folder: path -> content of the file
    reports,      \* sid_error! / sid_warning! lines of stage one, in order
    pack_run,     \* how many times from_assets_to_resources was started
    folders,      \* directory entries of the assets input folder, in read_dir order
    next_folder,  \* index of the entry the stage-two driver handles next
    packed,       \* every process_asset call of the current packing run, in call order
    warnings,     \* sid_warning! lines of stage two, in order
    resources     \* the resources folder: file name (the identifier) -> bytes

vars == <<frame_name, tag_result, entries, failing, assets_dir, images, next_entry, pc, results,
          writes, assets, reports, pack_run, folders, next_folder, packed, warnings,
          resources>>

stage_one_vars ==
    <<entries, failing, assets_dir, images, next_entry, results, writes, assets, reports>>
stage_two_vars == <<pack_run, folders, next_folder, packed, warnings, resources>>

---------------------------------------------------------------------------
(* Bounds of the model                                                     *)

MaxNameLen == 4        \* longest frame name of the tag-extraction inputs
MaxRuns == 3           \* most [frame, reps] runs of a sheet's frame list
MaxAnimFrameCount == 2 \* sid_get_max_animation_frame_count() of the linked library

(* Program constants                                                       *)

U16Max == 65535        \* u16::MAX
U16Mod == U16Max + 1   \* 2^16, the modulus of wrapping u16 arithmetic

---------------------------------------------------------------------------
(* Option<T>                                                               *)

None == [some |-> FALSE]
Some(v) == [some |-> TRUE, val |-> v]

(* std::cmp::min *)
min(a, b) == IF a <= b THEN a ELSE b

---------------------------------------------------------------------------
(* Strings                                                                 *)

NameAlphabet == {"(", ")", " ", "a"}

RECURSIVE StrsUpTo(_)
StrsUpTo(n) ==
    IF n = 0 THEN {<<>>}
    ELSE LET shorter == StrsUpTo(n - 1)
         IN  shorter \cup {Append(s, c) : s \in {t \in shorter : Len(t) = n - 1},
                                          c \in NameAlphabet}

IsWhitespace(c) == c = " "

(* str::trim: drop leading and trailing whitespace *)
RECURSIVE TrimStart(_)
TrimStart(s) ==
    IF s # <<>> /\ IsWhitespace(Head(s)) THEN TrimStart(Tail(s)) ELSE s

RECURSIVE TrimEnd(_)
TrimEnd(s) ==
    IF s # <<>> /\ IsWhitespace(s[Len(s)]) THEN TrimEnd(SubSeq(s, 1, Len(s) - 1))
    ELSE s

Trim(s) == TrimEnd(TrimStart(s))

---------------------------------------------------------------------------
(* std::path on Unix.  A path is a string; '/' separates its components.   *)

\* Path::is_absolute
is_absolute(p) == p # <<>> /\ Head(p) = "/"

\* the pieces of p[i..] between separators, empty pieces included
RECURSIVE SplitPath(_, _, _)
SplitPath(p, i, piece) ==
    IF i > Len(p) THEN <<piece>>
    ELSE IF p[i] = "/" THEN <<piece>> \o SplitPath(p, i + 1, <<>>)
    ELSE SplitPath(p, i + 1, Append(piece, p[i]))

\* Path::components without the root: empty pieces and "." pieces are
\* dropped, except a "." that starts a relative path (CurDir)
RECURSIVE KeepComponents(_, _)
KeepComponents(pieces, i) ==
    IF i > Len(pieces) THEN <<>>
    ELSE IF pieces[i] = <<>> \/ (pieces[i] = <<".">> /\ i > 1)
    THEN KeepComponents(pieces, i + 1)
    ELSE <<pieces[i]>> \o KeepComponents(pieces, i + 1)

Components(p) == KeepComponents(SplitPath(p, 1, <<>>), 1)

\* Path::file_name: the last component when it is a normal one
file_name(p) ==
    LET comps == Components(p)
    IN  IF comps = <<>> THEN None
        ELSE IF comps[Len(comps)] \in {<<".">>, <<".", ".">>} THEN None
        ELSE Some(comps[Len(comps)])

\* position of the last '.' of a file name, 0 when it has none
RECURSIVE LastDot(_, _)
LastDot(name, i) ==
    IF i = 0 THEN 0 ELSE IF name[i] = "." THEN i ELSE LastDot(name, i - 1)

\* Path::file_stem: the file name up to its last '.'; the whole file name
\* when it has no '.' or only a leading one
file_stem(p) ==
    LET name == file_name(p)
    IN  IF ~name.some THEN None
        ELSE LET dot == LastDot(name.val, Len(name.val))
             IN  IF dot <= 1 THEN name ELSE Some(SubSeq(name.val, 1, dot - 1))

\* Path::extension: the file name after its last '.'; none when it has no
\* '.' or only a leading one
extension(p) ==
    LET name == file_name(p)
    IN  IF ~name.some THEN None
        ELSE LET dot == LastDot(name.val, Len(name.val))
             IN  IF dot <= 1 THEN None
                 ELSE Some(SubSeq(name.val, dot + 1, Len(name.val)))

\* Path::join / PathBuf::push: an absolute path replaces the base
join(base, p) ==
    IF is_absolute(p) THEN p
    ELSE IF base # <<>> /\ base[Len(base)] # "/" THEN base \o <<"/">> \o p
    ELSE base \o p

---------------------------------------------------------------------------
(* from_aseprite_frame_name_to_animation_name                              *)
(* Byte index i of the code is position i + 1 of the sequence.             *)

\* the for loop over char_indices: state <<start_index, end_index>>
RECURSIVE ScanFrameName(_, _, _, _)
ScanFrameName(s, i, start_index, end_index) ==
    IF i >= Len(s) THEN <<start_index, end_index>>
    ELSE IF s[i + 1] = "(" THEN ScanFrameName(s, i + 1, Some(i + 1), end_index)
    ELSE IF s[i + 1] = ")" THEN <<start_index, Some(i)>>           \* break
    ELSE ScanFrameName(s, i + 1, start_index, end_index)

from_aseprite_frame_name_to_animation_name(s) ==
    LET scan == ScanFrameName(s, 0, None, None)
        start == scan[1]
        end == scan[2]
    IN  IF start.some /\ end.some
        THEN Some(Trim(SubSeq(s, start.val + 1, end.val)))     \* &frame_name[start..end]
        ELSE None

---------------------------------------------------------------------------
(* Frame lists (Vec<AsepriteFrameTuple>), run-length encoded               *)

\* aseprite_tuples.len() / sheet.frames.len()
RECURSIVE FramesLen(_)
FramesLen(runs) ==
    IF runs = <<>> THEN 0 ELSE Head(runs).reps + FramesLen(Tail(runs))

\* sheet.frames[i], i counted from 0
RECURSIVE FrameAt(_, _)
FrameAt(runs, i) ==
    IF i < Head(runs).reps THEN Head(runs).frame
    ELSE FrameAt(Tail(runs), i - Head(runs).reps)

---------------------------------------------------------------------------
(* sid.rs: the linked identifier library, consumed as a service            *)

get_sprite_sheet_namespace == "sprite_sheet"
get_animation_def_namespace == "animation_def"
get_animation_namespace == "animation"

Namespaces ==
    {get_sprite_sheet_namespace, get_animation_def_namespace, get_animation_namespace}

get_max_animation_frame_count == MaxAnimFrameCount

---------------------------------------------------------------------------
(* asset.rs: the three intermediate assets and write_to_folder             *)

JsonExt == <<".", "j", "s", "o", "n">>

\* folder_path.join(namespace).join(file)
AssetPath(ns, file) == [dir |-> ns, file |-> file]

\* f with path p (over)written by content c
PutFile(f, p, c) == [q \in DOMAIN f \cup {p} |-> IF q = p THEN c ELSE f[q]]

\* SidAnimationAsset::from_def
from_def(def, name, offset, length) ==
    [offset |-> offset, length |-> length, name |-> name, def_name |-> def.name]

(* write_to_folder returns its Result and the file writes it performed in  *)
(* the assets folder.  A namespace in the failing set is one whose folder  *)
(* cannot be created (create_dir_all fails), so nothing is written below   *)
(* it.                                                                     *)

\* an image file: what image::open decodes it to, if it decodes
Image(width, height, color) ==
    [kind |-> "image", decodable |-> TRUE, width |-> width, height |-> height,
     color |-> color]
TruncatedFile == [kind |-> "image", decodable |-> FALSE]

\* how fs::copy of a file onto itself ends: the destination is truncated
\* before the source is read, or the copy is refused
CopyOntoItself == {"truncates", "fails"}

\* whether the assets folder exists: it does unless it was missing at the
\* start and nothing has been created below it
AssetsFolderExists(d, env) == env.assets_dir # "relative_missing" \/ DOMAIN d.assets # {}

\* SidSpriteSheetAsset::write_to_folder; also returns the image files after it
SpriteSheetWriteToFolder(asset, d, env) ==
    LET ns == get_sprite_sheet_namespace
        in_sheet_path == asset.image_from_path
        inside == Components(asset.image_path)
        out_json == [path |-> AssetPath(ns, asset.name \o JsonExt),
                     content |-> [kind |-> "sprite_sheet",
                                  name |-> asset.name,
                                  image_path |-> asset.image_path,
                                  width |-> asset.width,
                                  height |-> asset.height,
                                  format |-> asset.format]]
        failed == [ok |-> FALSE, files |-> <<>>, images |-> d.images]
    IN  IF env.assets_dir # "absolute" /\ ~AssetsFolderExists(d, env)
        THEN failed                                    \* canonicalize(folder_path)
        ELSE IF ns \in env.failing THEN failed         \* create_dir_all
        ELSE IF in_sheet_path \notin DOMAIN d.images THEN failed    \* fs::copy: no source
        ELSE IF is_absolute(asset.image_path)
        \* out_path.join(&self.image_path) is image_path, the source itself
        THEN IF env.self_copy = "fails" THEN failed
             ELSE [ok |-> TRUE, files |-> <<out_json>>,
                   images |-> [d.images EXCEPT ![in_sheet_path] = TruncatedFile]]
        ELSE IF Len(inside) # 1 \/ inside[1] \in {<<".">>, <<".", ".">>}
        THEN failed                      \* fs::copy: no such destination folder
        ELSE [ok |-> TRUE,
              files |-> << [path |-> AssetPath(ns, inside[1]),
                            content |-> d.images[in_sheet_path]],
                           out_json >>,
              images |-> d.images]

\* SidAnimationDefAsset::write_to_folder
AnimationDefWriteToFolder(asset, fs_failing) ==
    IF get_animation_def_namespace \in fs_failing
    THEN [ok |-> FALSE, files |-> <<>>]
    ELSE [ok |-> TRUE,
          files |->
            << [path |-> AssetPath(get_animation_def_namespace, asset.name \o JsonExt),
                content |-> [kind |-> "animation_def",
                             frame_count |-> asset.frame_count,
                             frames |-> asset.frames,
                             name |-> asset.name,
                             sheet_name |-> asset.sheet_name]] >>]

\* SidAnimationAsset::write_to_folder
AnimationWriteToFolder(asset, fs_failing) ==
    IF get_animation_namespace \in fs_failing
    THEN [ok |-> FALSE, files |-> <<>>]
    ELSE [ok |-> TRUE,
          files |->
            << [path |-> AssetPath(get_animation_namespace, asset.name \o JsonExt),
                content |-> [kind |-> "animation",
                             offset |-> asset.offset,
                             length |-> asset.length,
                             name |-> asset.name,
                             def_name |-> asset.def_name]] >>]

---------------------------------------------------------------------------
(* sid_aseprite.rs: Asset Deriver                                          *)

\* std::fs::canonicalize(containing_folder): the absolute path of the sheets
\* folder, which read_dir has just listed
SheetsDir == <<"/", "s">>

\* SpriteSheetFromAsepriteSheet with `width < 0 || height < 0` as the size check
SpriteSheetFromAsepriteSheetAllowingZero(sheet) ==
    LET meta == sheet.meta
        path == IF is_absolute(meta.image) THEN meta.image
                ELSE join(<<"/", "s">>, meta.image)
        name == file_stem(path)
    IN  IF meta.size.w < 0 \/ meta.size.h < 0
        THEN [asset |-> None, reports |-> <<"invalid_size">>]
        ELSE IF ~name.some
        THEN [asset |-> None, reports |-> <<"invalid_name">>]
        ELSE [asset |-> Some([name |-> name.val,
                              image_path |-> meta.image,
                              image_from_path |-> path,
                              width |-> meta.size.w,
                              height |-> meta.size.h,
                              format |-> meta.format]),
              reports |-> <<>>]

\* SidSpriteSheetAsset::from_aseprite_sheet; returns [asset, reports]
SpriteSheetFromAsepriteSheet(sheet) ==
    LET meta == sheet.meta
        width == meta.size.w
        height == meta.size.h
        image_name == meta.image
        path == IF is_absolute(meta.image) THEN meta.image
                ELSE join(SheetsDir, meta.image)
        name == file_stem(path)
    IN  IF width <= 0 \/ height <= 0
        THEN [asset |-> None, reports |-> <<"invalid_size">>]
        ELSE IF ~name.some                               \* path.file_stem() is None
        THEN [asset |-> None, reports |-> <<"invalid_name">>]
        ELSE [asset |-> Some([name |-> name.val,
                              image_path |-> image_name,
                              image_from_path |-> path,
                              width |-> width,
                              height |-> height,
                              format |-> meta.format]),
              reports |-> <<>>]

\* i16 / i32 -> u16 try_into
FitsU16(v) == 0 <= v /\ v <= U16Max

\* ConvertFrame with `data.duration as u16` in place of try_into
ConvertFrameTruncatingDuration(tuple) ==
    LET frame == tuple.data.frame
    IN  IF frame.x < 0 \/ frame.y < 0 \/ frame.w < 0 \/ frame.h < 0 THEN None
        ELSE Some([pos |-> [x |-> frame.x, y |-> frame.y],
                   dims |-> [width |-> frame.w, height |-> frame.h],
                   duration |-> tuple.data.duration % (U16Max + 1)])

\* one iteration of the for loop over aseprite_tuples: Some(frame asset) or
\* None where a try_into fails (the function then returns None)
ConvertFrame(tuple) ==
    LET frame == tuple.data.frame
    IN  IF ~FitsU16(frame.x) THEN None
        ELSE IF ~FitsU16(frame.y) THEN None
        ELSE IF ~FitsU16(frame.w) THEN None
        ELSE IF ~FitsU16(frame.h) THEN None
        ELSE IF ~FitsU16(tuple.data.duration) THEN None
        ELSE Some([pos |-> [x |-> frame.x, y |-> frame.y],
                   dims |-> [width |-> frame.w, height |-> frame.h],
                   duration |-> tuple.data.duration])

\* the for loop over aseprite_tuples, a run of equal tuples at a time:
\* Some(frames pushed) or None at the first tuple that does not convert
RECURSIVE ConvertFrames(_, _)
ConvertFrames(runs, frames) ==
    IF runs = <<>> THEN Some(frames)
    ELSE LET converted == ConvertFrame(Head(runs).frame)
         IN  IF ~converted.some THEN None
             ELSE ConvertFrames(Tail(runs),
                                Append(frames, [frame |-> converted.val,
                                                reps |-> Head(runs).reps]))

\* SidAnimationDefAsset::from_aseprite_frame_tuples_and_sid_sprite_sheet
AnimationDefFromFrameTuples(aseprite_tuples, sheet) ==
    LET frame_count ==
            min(FramesLen(aseprite_tuples), get_max_animation_frame_count) % U16Mod
        frames == ConvertFrames(aseprite_tuples, <<>>)
    IN  IF ~frames.some
        THEN [asset |-> None, reports |-> <<"frame_conversion">>]
        ELSE [asset |-> Some([frame_count |-> frame_count,
                              frames |-> frames.val,
                              name |-> sheet.name,
                              sheet_name |-> sheet.name]),
              reports |-> <<>>]

---------------------------------------------------------------------------
(* from_aseprite_sheet_to_sid_animations: the grouping algorithm           *)
(* Loop state: offset, last_anim_name, the assets handed to                *)
(* write_to_folder so far, and outcome ("running" until a return).         *)

\* final_anim_name: def.name, '_', last_anim_name
FinalAnimName(def, last_anim_name) == def.name \o <<"_">> \o last_anim_name

\* GroupStep without `offset = i` after an asset is emitted
GroupStepStaleOffset(sheet, def, st, i) ==
    IF i > U16Max
    THEN [st EXCEPT !.outcome = "too_many"]
    ELSE LET anim_name == from_aseprite_frame_name_to_animation_name(
                              FrameAt(sheet.frames, i).name)
         IN  IF ~anim_name.some
             THEN [st EXCEPT !.outcome = "malformed_name"]
             ELSE IF i = 0
             THEN [st EXCEPT !.last_anim_name = anim_name.val]
             ELSE IF anim_name.val = st.last_anim_name
             THEN st
             ELSE [st EXCEPT
                     !.emitted = Append(@, from_def(def,
                                                    def.name \o <<"_">> \o st.last_anim_name,
                                                    st.offset, i - st.offset)),
                     !.last_anim_name = anim_name.val]

\* the body of `for i in 0..sheet.frames.len()`
GroupStep(sheet, def, st, i) ==
    IF i > U16Max
    THEN [st EXCEPT !.outcome = "too_many"]
    ELSE LET anim_name == from_aseprite_frame_name_to_animation_name(
                              FrameAt(sheet.frames, i).name)
         IN  IF ~anim_name.some
             THEN [st EXCEPT !.outcome = "malformed_name"]
             ELSE IF i = 0
             THEN [st EXCEPT !.last_anim_name = anim_name.val]
             ELSE IF anim_name.val = st.last_anim_name
             THEN st
             ELSE [st EXCEPT
                     !.emitted = Append(@, from_def(def,
                                                    FinalAnimName(def, st.last_anim_name),
                                                    st.offset, i - st.offset)),
                     !.last_anim_name = anim_name.val,
                     !.offset = i]

\* iterations lo..hi of the loop, in order; nothing runs after a return
RECURSIVE GroupLoop(_, _, _, _, _)
GroupLoop(sheet, def, st, lo, hi) ==
    IF lo > hi \/ st.outcome # "running" THEN st
    ELSE IF lo = hi THEN GroupStep(sheet, def, st, lo)
    ELSE LET mid == (lo + hi) \div 2
         IN  GroupLoop(sheet, def, GroupLoop(sheet, def, st, lo, mid), mid + 1, hi)

(* `sheet.frames.len() as u16 - offset`: the cast truncates; on underflow  *)
(* the subtraction panics in a build that checks overflow and wraps in one *)
(* that does not.  The set of values it can give; None is the panic.       *)
U16Sub(a, b) ==
    IF a >= b THEN {Some(a - b)}
    ELSE {None, Some((a - b + U16Mod) % U16Mod)}

\* from_aseprite_sheet_to_sid_animations that closes the final run only
\* when the loop emitted a run before it
from_aseprite_sheet_to_sid_animationsUnlessOnlyRun(sheet, def) ==
    LET len == FramesLen(sheet.frames)
    IN  IF len = 0
        THEN {[emitted |-> <<>>, outcome |-> "no_animation"]}
        ELSE LET st == GroupLoop(sheet, def,
                                 [offset |-> 0, last_anim_name |-> <<>>,
                                  emitted |-> <<>>, outcome |-> "running"],
                                 0, len - 1)
             IN  IF st.outcome # "running"
                 THEN {[emitted |-> st.emitted, outcome |-> st.outcome]}
                 ELSE IF st.emitted = <<>>
                 THEN {[emitted |-> <<>>, outcome |-> "done"]}
                 ELSE {IF ~length.some
                       THEN [emitted |-> st.emitted, outcome |-> "panic"]
                       ELSE [emitted |-> Append(st.emitted,
                                                from_def(def,
                                                         FinalAnimName(def,
                                                                       st.last_anim_name),
                                                         st.offset, length.val)),
                             outcome |-> "done"] :
                       length \in U16Sub(len % U16Mod, st.offset)}

\* how one call can end: the assets handed to write_to_folder, in order, and
\* the way the function was left
from_aseprite_sheet_to_sid_animations(sheet, def) ==
    LET len == FramesLen(sheet.frames)
    IN  IF len = 0
        THEN {[emitted |-> <<>>, outcome |-> "no_animation"]}
        ELSE LET st == GroupLoop(sheet, def,
                                 [offset |-> 0, last_anim_name |-> <<>>,
                                  emitted |-> <<>>, outcome |-> "running"],
                                 0, len - 1)
             IN  IF st.outcome # "running"
                 THEN {[emitted |-> st.emitted, outcome |-> st.outcome]}
                 ELSE {IF ~length.some
                       THEN [emitted |-> st.emitted, outcome |-> "panic"]
                       ELSE [emitted |-> Append(st.emitted,
                                                from_def(def,
                                                         FinalAnimName(def,
                                                                       st.last_anim_name),
                                                         st.offset, length.val)),
                             outcome |-> "done"] :
                       length \in U16Sub(len % U16Mod, st.offset)}

---------------------------------------------------------------------------
(* The file system as stage one sees it: d = [assets, images, writes,      *)
(* reports]; env = [failing, assets_dir, self_copy] is what the run cannot *)
(* change: the folders that cannot be created, the form of the assets path *)
(* given on the command line, and what copying a file onto itself does.    *)

Report(d, idx, kinds) ==
    [d EXCEPT !.reports = @ \o [k \in 1..Len(kinds) |-> [entry |-> idx, kind |-> kinds[k]]]]

RECURSIVE PutFiles(_, _)
PutFiles(f, files) ==
    IF files = <<>> THEN f
    ELSE PutFiles(PutFile(f, Head(files).path, Head(files).content), Tail(files))

\* write_to_folder of the asset's type
WriteToFolder(ns, asset, d, env) ==
    IF ns = get_sprite_sheet_namespace THEN SpriteSheetWriteToFolder(asset, d, env)
    ELSE LET w == IF ns = get_animation_def_namespace
                  THEN AnimationDefWriteToFolder(asset, env.failing)
                  ELSE AnimationWriteToFolder(asset, env.failing)
         IN  [ok |-> w.ok, files |-> w.files, images |-> d.images]

\* `if let Err(error) = sid_asset.write_to_folder(..) { sid_error!(..) }`
WriteAsset(d, idx, ns, asset, env) ==
    LET w == WriteToFolder(ns, asset, d, env)
        logged == [d EXCEPT
                     !.assets = PutFiles(@, w.files),
                     !.images = w.images,
                     !.writes = Append(@, [entry |-> idx, ns |-> ns, name |-> asset.name,
                                           path |-> AssetPath(ns, asset.name \o JsonExt),
                                           asset |-> asset,
                                           ok |-> w.ok])]
    IN  IF w.ok THEN logged ELSE Report(logged, idx, <<"io">>)

\* WriteAnimations that stops at the first write that fails
WriteAnimationsUntilFailure(d, idx, emitted, env) ==
    LET RECURSIVE Go(_, _)
        Go(dd, rest) ==
            IF rest = <<>> THEN dd
            ELSE LET after == WriteAsset(dd, idx, get_animation_namespace, Head(rest), env)
                 IN  IF after.writes[Len(after.writes)].ok THEN Go(after, Tail(rest))
                     ELSE after
    IN  Go(d, emitted)

\* WriteAnimations that writes the last emitted animation first
WriteAnimationsReversed(d, idx, emitted, env) ==
    LET RECURSIVE Go(_, _)
        Go(dd, rest) ==
            IF rest = <<>> THEN dd
            ELSE Go(WriteAsset(dd, idx, get_animation_namespace, rest[Len(rest)], env),
                    SubSeq(rest, 1, Len(rest) - 1))
    IN  Go(d, emitted)

\* the write_to_folder calls of the grouping, in emission order
RECURSIVE WriteAnimations(_, _, _, _)
WriteAnimations(d, idx, emitted, env) ==
    IF emitted = <<>> THEN d
    ELSE WriteAnimations(WriteAsset(d, idx, get_animation_namespace, Head(emitted), env),
                         idx, Tail(emitted), env)

---------------------------------------------------------------------------
(* AsepriteSheet::from_json                                                *)
(* A sheet file is unreadable, or a text that serde_json rejects           *)
(* (json = None) or parses to a value.  A JSON object is                   *)
(* [type |-> "object", members |-> <<[key, value], ...>>]; the members of  *)
(* a 'frames' object are runs [key, value, reps]: reps consecutive entries *)
(* with the tag of key and the data of value.  Every other JSON value is   *)
(* [type |-> t].  A frame data or meta object carries the fields the code  *)
(* reads, and `complete`: whether the other fields of the struct are       *)
(* present and of their types.                                             *)

I16Max == 32767

\* an integer of the text deserializes to an i16
FitsI16(v) == -I16Max - 1 <= v /\ v <= I16Max

\* serde_json::from_value::<AsepriteFrameData>
DeserializeFrameData(value) ==
    IF /\ value.type = "object"
       /\ value.complete
       /\ \A v \in {value.frame.x, value.frame.y, value.frame.w, value.frame.h} : FitsI16(v)
    THEN Some([frame |-> value.frame, duration |-> value.duration])
    ELSE None

\* serde_json::from_value::<AsepriteMeta>
DeserializeMeta(value) ==
    IF /\ value.type = "object"
       /\ value.complete
       /\ FitsI16(value.size.w) /\ FitsI16(value.size.h)
    THEN Some([image |-> value.image, size |-> value.size, format |-> value.format])
    ELSE None

\* AsepriteMeta::new
AsepriteMetaNew == [image |-> <<>>, size |-> [w |-> 0, h |-> 0], format |-> ""]

\* AsepriteSheet::new
AsepriteSheetNew == [frames |-> <<>>, meta |-> AsepriteMetaNew]

\* ParseFrames that leaves out an entry that does not deserialize
ParseFramesSkippingBadEntries(members, frames) ==
    LET RECURSIVE Go(_, _)
        Go(ms, fs) ==
            IF ms = <<>> THEN Some(fs)
            ELSE LET data == DeserializeFrameData(Head(ms).value)
                 IN  IF ~data.some THEN Go(Tail(ms), fs)
                     ELSE Go(Tail(ms),
                             Append(fs, [frame |-> [name |-> Head(ms).key, data |-> data.val],
                                         reps |-> Head(ms).reps]))
    IN  Go(members, frames)

\* `for (key, value) in obj`: Some(frames pushed), or None at the first entry
\* that does not deserialize
RECURSIVE ParseFrames(_, _)
ParseFrames(members, frames) ==
    IF members = <<>> THEN Some(frames)
    ELSE LET data == DeserializeFrameData(Head(members).value)
         IN  IF ~data.some THEN None
             ELSE ParseFrames(Tail(members),
                              Append(frames,
                                     [frame |-> [name |-> Head(members).key,
                                                 data |-> data.val],
                                      reps |-> Head(members).reps]))

\* ParseMembers that takes a 'frames' value that is no object as malformed
ParseMembersRejectingOtherFrames(members, descr) ==
    LET RECURSIVE Go(_, _)
        Go(ms, de) ==
            IF ms = <<>> THEN [ok |-> TRUE, sheet |-> de]
            ELSE LET key == Head(ms).key
                     value == Head(ms).value
                 IN  IF key = "frames"
                     THEN IF value.type = "object"
                          THEN LET frames == ParseFrames(value.members, de.frames)
                               IN  IF ~frames.some
                                   THEN [ok |-> FALSE, error |-> "malformed"]
                                   ELSE Go(Tail(ms), [de EXCEPT !.frames = frames.val])
                          ELSE [ok |-> FALSE, error |-> "malformed"]
                     ELSE IF key = "meta"
                     THEN LET meta == DeserializeMeta(value)
                          IN  IF ~meta.some THEN [ok |-> FALSE, error |-> "malformed"]
                              ELSE Go(Tail(ms), [de EXCEPT !.meta = meta.val])
                     ELSE Go(Tail(ms), de)
    IN  Go(members, descr)

\* `for (key, value) in map`
RECURSIVE ParseMembers(_, _)
ParseMembers(members, descr) ==
    IF members = <<>> THEN [ok |-> TRUE, sheet |-> descr]
    ELSE LET key == Head(members).key
             value == Head(members).value
         IN  IF key = "frames"
             THEN IF value.type = "object"
                  THEN LET frames == ParseFrames(value.members, descr.frames)
                       IN  IF ~frames.some THEN [ok |-> FALSE, error |-> "malformed"]
                           ELSE ParseMembers(Tail(members),
                                             [descr EXCEPT !.frames = frames.val])
                  ELSE ParseMembers(Tail(members), descr)
             ELSE IF key = "meta"
             THEN LET meta == DeserializeMeta(value)
                  IN  IF ~meta.some THEN [ok |-> FALSE, error |-> "malformed"]
                      ELSE ParseMembers(Tail(members), [descr EXCEPT !.meta = meta.val])
             ELSE ParseMembers(Tail(members), descr)

from_json(file) ==
    IF ~file.readable THEN [ok |-> FALSE, error |-> "io"]        \* fs::read_to_string
    ELSE IF ~file.json.some THEN [ok |-> FALSE, error |-> "malformed"]   \* from_str
    ELSE IF file.json.val.type # "object" THEN [ok |-> FALSE, error |-> "malformed"]
    ELSE ParseMembers(file.json.val.members, AsepriteSheetNew)

---------------------------------------------------------------------------
(* from_aseprite_sheets_to_sid_assets: the body of `for entry in entries`  *)
(* The ways the iteration can end, each with the file system after it,     *)
(* what it parsed and derived, and whether the process panicked in it.     *)

Skipped(d, idx, parsed) ==
    [d |-> d,
     result |-> [entry |-> idx, parsed |-> parsed, sprite |-> None, def |-> None,
                 grouping |-> None],
     panicked |-> FALSE]

StageOneEntry(entry, idx, d, env) ==
    IF ~entry.ext.some \/ entry.ext.val # "json" THEN {Skipped(d, idx, None)}
    ELSE LET parsed == from_json(entry.file)
    IN  IF ~parsed.ok THEN {Skipped(Report(d, idx, <<parsed.error>>), idx, Some(parsed))}
    ELSE LET sheet == parsed.sheet
             sprite == SpriteSheetFromAsepriteSheet(sheet)
    IN  IF ~sprite.asset.some
        THEN {Skipped(Report(d, idx, sprite.reports), idx, Some(parsed))}
    ELSE LET d1 == WriteAsset(d, idx, get_sprite_sheet_namespace, sprite.asset.val, env)
             def == AnimationDefFromFrameTuples(sheet.frames, sprite.asset.val)
    IN  IF ~def.asset.some
        THEN {[d |-> Report(d1, idx, def.reports),
               result |-> [entry |-> idx, parsed |-> Some(parsed), sprite |-> sprite.asset,
                           def |-> None, grouping |-> None],
               panicked |-> FALSE]}
    ELSE LET d2 == WriteAsset(d1, idx, get_animation_def_namespace, def.asset.val, env)
    IN  {LET d3 == WriteAnimations(d2, idx, grouping.emitted, env)
         IN  [d |-> IF grouping.outcome \in {"done", "panic"} THEN d3
                    ELSE Report(d3, idx, <<grouping.outcome>>),
              result |-> [entry |-> idx, parsed |-> Some(parsed), sprite |-> sprite.asset,
                          def |-> def.asset, grouping |-> Some(grouping)],
              panicked |-> grouping.outcome = "panic"] :
         grouping \in from_aseprite_sheet_to_sid_animations(sheet, def.asset.val)}

---------------------------------------------------------------------------
(* resource.rs: Resource Packer                                            *)
(* A resource is a byte stream, kept as a sequence of [bytes, reps]        *)
(* chunks standing for reps consecutive copies of bytes.                   *)

\* to_le_bytes of an n-byte unsigned integer
RECURSIVE LeBytes(_, _)
LeBytes(v, n) == IF n = 0 THEN <<>> ELSE <<v % 256>> \o LeBytes(v \div 256, n - 1)

Chunk(bytes, reps) == [bytes |-> bytes, reps |-> reps]

\* the length of the file in bytes
RECURSIVE ByteLen(_)
ByteLen(stream) ==
    IF stream = <<>> THEN 0
    ELSE Len(Head(stream).bytes) * Head(stream).reps + ByteLen(Tail(stream))

(* The identifier generators of the linked library: a stable 32-bit value  *)
(* per name, with one generator per asset kind.  The stand-in hash keeps   *)
(* its values below 2^16.                                                  *)
CodeOrder == <<"_", "a", "b", "h", "k", " ", "(", ")", ".", "s">>
CharCode(c) == CHOOSE i \in DOMAIN CodeOrder : CodeOrder[i] = c

RECURSIVE HashName(_, _)
HashName(name, h) ==
    IF name = <<>> THEN h
    ELSE HashName(Tail(name), (h * 31 + CharCode(Head(name))) % U16Mod)

generate_sprite_sheet_id(name) == HashName(name, 1)
generate_animation_def_id(name) == HashName(name, 2)
generate_animation_id(name) == HashName(name, 3)

\* image::open of a texture file: Some(the decoded image) or None (Err)
OpenImage(content) ==
    IF content.kind = "image" /\ content.decodable
    THEN Some([width |-> content.width, height |-> content.height, color |-> content.color])
    ELSE None

\* ColorType::channel_count
ChannelCount(color) ==
    IF color \in {"Rgb8", "Rgb16"} THEN 3 ELSE IF color = "Rgba8" THEN 4 ELSE 1

\* ColorType::bytes_per_pixel
BytesPerPixel(color) == IF color = "Rgb16" THEN 6 ELSE ChannelCount(color)

\* texture.as_bytes(): the decoded pixels, row after row
PixelBytes(texture) ==
    Chunk(<<0>>, texture.width * texture.height * BytesPerPixel(texture.color))

\* in_path.parent() with image_path pushed: Some(the file there) or None
TextureFile(asset, in_path, files, imgs) ==
    LET inside == Components(asset.image_path)
    IN  IF is_absolute(asset.image_path)
        THEN IF asset.image_path \in DOMAIN imgs THEN Some(imgs[asset.image_path]) ELSE None
        ELSE IF /\ Len(inside) = 1
                /\ [dir |-> in_path.dir, file |-> inside[1]] \in DOMAIN files
        THEN Some(files[[dir |-> in_path.dir, file |-> inside[1]]])
        ELSE None

\* SpriteSheetWriteResource with every decoded pixel format taken as RGBA8
SpriteSheetWriteResourceAnyFormat(asset, in_path, files, imgs) ==
    LET id == generate_sprite_sheet_id(asset.name)
        file == TextureFile(asset, in_path, files, imgs)
        texture == IF file.some THEN OpenImage(file.val) ELSE None
    IN  IF ~texture.some THEN [ok |-> FALSE]
        ELSE LET width == texture.val.width
                 height == texture.val.height
                 channel_count == ChannelCount(texture.val.color)
             IN  [ok |-> TRUE, id |-> id,
                  stream |->
                    << Chunk(LeBytes(id, 4) \o LeBytes(width, 4) \o LeBytes(height, 4)
                               \o LeBytes(channel_count, 1)
                               \o LeBytes(IF texture.val.color = "Rgb8" THEN 1 ELSE 2, 4)
                               \o LeBytes(width * height * channel_count, 8), 1),
                       PixelBytes(texture.val) >>]

\* SerializeSidAsset for SidSpriteSheetAsset: Ok(id, bytes) or Err
SpriteSheetWriteResource(asset, in_path, files, imgs) ==
    LET id == generate_sprite_sheet_id(asset.name)
        file == TextureFile(asset, in_path, files, imgs)
        texture == IF file.some THEN OpenImage(file.val) ELSE None
    IN  IF ~texture.some THEN [ok |-> FALSE]
        ELSE LET width == texture.val.width
                 height == texture.val.height
                 channel_count == ChannelCount(texture.val.color)
                 texture_size == width * height * channel_count
             IN  IF texture.val.color \notin {"Rgb8", "Rgba8"} THEN [ok |-> FALSE]
                 ELSE [ok |-> TRUE, id |-> id,
                       stream |->
                         << Chunk(LeBytes(id, 4) \o LeBytes(width, 4) \o LeBytes(height, 4)
                                    \o LeBytes(channel_count, 1)
                                    \o LeBytes(IF texture.val.color = "Rgb8" THEN 1 ELSE 2, 4)
                                    \o LeBytes(texture_size, 8), 1),
                            PixelBytes(texture.val) >>]

\* the bytes written for one frame of the `for frame in &self.frames` loop
FrameBytes(frame) ==
    LeBytes(frame.pos.x, 2) \o LeBytes(frame.pos.y, 2) \o LeBytes(frame.dims.width, 2)
        \o LeBytes(frame.dims.height, 2) \o LeBytes(frame.duration, 2)

\* AnimationDefWriteResource with the sheet identifier taken from the
\* definition's generator
AnimationDefWriteResourceOwnGenerator(asset) ==
    LET id == generate_animation_def_id(asset.name)
        sheet_id == generate_animation_def_id(asset.sheet_name)
    IN  [ok |-> TRUE, id |-> id,
         stream |->
           <<Chunk(LeBytes(id, 4) \o LeBytes(sheet_id, 4) \o LeBytes(asset.frame_count, 2), 1)>>
             \o [r \in DOMAIN asset.frames |->
                    Chunk(FrameBytes(asset.frames[r].frame), asset.frames[r].reps)]]

\* SerializeSidAsset for SidAnimationDefAsset
AnimationDefWriteResource(asset) ==
    LET id == generate_animation_def_id(asset.name)
        sheet_id == generate_sprite_sheet_id(asset.sheet_name)
    IN  [ok |-> TRUE, id |-> id,
         stream |->
           <<Chunk(LeBytes(id, 4) \o LeBytes(sheet_id, 4) \o LeBytes(asset.frame_count, 2), 1)>>
             \o [r \in DOMAIN asset.frames |->
                    Chunk(FrameBytes(asset.frames[r].frame), asset.frames[r].reps)]]

\* SerializeSidAsset for SidAnimationAsset
AnimationWriteResource(asset) ==
    LET id == generate_animation_id(asset.name)
        def_id == generate_animation_def_id(asset.def_name)
    IN  [ok |-> TRUE, id |-> id,
         stream |->
           <<Chunk(LeBytes(id, 4) \o LeBytes(def_id, 4) \o LeBytes(asset.offset, 2)
                     \o LeBytes(asset.length, 2), 1)>>]

\* CreateResource on a file opened for appending
CreateResourceAppending(f, p, c) ==
    [q \in DOMAIN f \cup {p} |-> IF q = p THEN (IF p \in DOMAIN f THEN f[p] \o c ELSE c)
                                 ELSE f[q]]

\* File::create(&path) and the writes that follow: the resource file holds
\* the bytes written, whatever it held
CreateResource(f, p, c) == PutFile(f, p, c)

\* SidAssetProcessor::extension_compatible
extension_compatible(ext) == ext = <<"j", "s", "o", "n">>

\* compatible without the test of the file type
compatibleAnyFileType(path, files) ==
    /\ extension(path.file).some
    /\ extension_compatible(extension(path.file).val)

\* SidAssetProcessor::compatible: a regular file whose extension is accepted
compatible(path, files) ==
    /\ files[path].kind # "dir"
    /\ extension(path.file).some
    /\ extension_compatible(extension(path.file).val)

\* SidAssetProcessor::process_asset: open, deserialize as the namespace's
\* asset type, write the resource; every failure is an unwrap() panic
process_asset(ns, path, files, imgs, out) ==
    LET asset == files[path]
        written == IF asset.kind = "unreadable" THEN [ok |-> FALSE]    \* File::open
                   ELSE IF asset.kind # ns THEN [ok |-> FALSE]         \* from_reader
                   ELSE IF ns = get_sprite_sheet_namespace
                   THEN SpriteSheetWriteResource(asset, path, files, imgs)
                   ELSE IF ns = get_animation_def_namespace
                   THEN AnimationDefWriteResource(asset)
                   ELSE AnimationWriteResource(asset)
    IN  IF written.ok
        THEN [resources |-> CreateResource(out, written.id, written.stream),
              panicked |-> FALSE,
              call |-> [ns |-> ns, path |-> path, ok |-> TRUE, id |-> Some(written.id)]]
        ELSE [resources |-> out, panicked |-> TRUE,
              call |-> [ns |-> ns, path |-> path, ok |-> FALSE, id |-> None]]

\* process_assets that goes on to the next file after a failure
process_assetsSkippingFailures(ns, listing, files, imgs, out) ==
    LET RECURSIVE Go(_, _, _)
        Go(l, o, calls) ==
            IF l = <<>> THEN [resources |-> o, panicked |-> FALSE, calls |-> calls]
            ELSE IF ~compatible(Head(l), files) THEN Go(Tail(l), o, calls)
            ELSE LET r == process_asset(ns, Head(l), files, imgs, o)
                 IN  Go(Tail(l), r.resources, Append(calls, r.call))
    IN  Go(listing, out, <<>>)

\* SidAssetProcessor::process_assets over the listing of one namespace
\* folder: the resources after it, whether it panicked, and its
\* process_asset calls
RECURSIVE process_assets(_, _, _, _, _)
process_assets(ns, listing, files, imgs, out) ==
    IF listing = <<>> THEN [resources |-> out, panicked |-> FALSE, calls |-> <<>>]
    ELSE IF ~compatible(Head(listing), files)
    THEN process_assets(ns, Tail(listing), files, imgs, out)
    ELSE LET r == process_asset(ns, Head(listing), files, imgs, out)
         IN  IF r.panicked
             THEN [resources |-> r.resources, panicked |-> TRUE, calls |-> <<r.call>>]
             ELSE LET rest == process_assets(ns, Tail(listing), files, imgs, r.resources)
                  IN  [rest EXCEPT !.calls = <<r.call>> \o @]

(* read_dir order is not specified: a listing is taken in the order the    *)
(* files were created, or in the reverse of it.                            *)
Reverse(q) == [i \in 1..Len(q) |-> q[Len(q) + 1 - i]]

\* the files of folder ns that exist, in the order of their first write
RECURSIVE CreationOrder(_, _, _, _)
CreationOrder(log, ns, files, seen) ==
    IF log = <<>> THEN <<>>
    ELSE IF Head(log).ns = ns /\ Head(log).path \in DOMAIN files /\ Head(log).path \notin seen
    THEN <<Head(log).path>>
             \o CreationOrder(Tail(log), ns, files, seen \cup {Head(log).path})
    ELSE CreationOrder(Tail(log), ns, files, seen)

\* some enumeration of a finite set
RECURSIVE SeqOf(_)
SeqOf(S) ==
    IF S = {} THEN <<>>
    ELSE LET x == CHOOSE y \in S : TRUE IN <<x>> \o SeqOf(S \ {x})

\* the entries of the folder named `name`: the files stage one did not
\* write as assets (copied images, files that were there before), then the
\* asset files
FolderListing(name, files, log, reversed) ==
    LET created == CreationOrder(log, name, files, {})
        others == {p \in DOMAIN files : p.dir = name} \ {created[i] : i \in DOMAIN created}
        listing == SeqOf(others) \o created
    IN  IF reversed THEN Reverse(listing) ELSE listing

\* the namespace folders stage one created under the assets folder
RECURSIVE FoldersCreated(_, _, _)
FoldersCreated(log, files, seen) ==
    IF log = <<>> THEN <<>>
    ELSE IF Head(log).ns \notin seen /\ \E p \in DOMAIN files : p.dir = Head(log).ns
    THEN <<Head(log).ns>> \o FoldersCreated(Tail(log), files, seen \cup {Head(log).ns})
    ELSE FoldersCreated(Tail(log), files, seen)

\* the entries of the assets folder: those that were there before and are
\* not namespace folders of this run, then the folders stage one created
TopLevelListing(files, log, reversed) ==
    LET created == FoldersCreated(log, files, {})
        others == {p.dir : p \in DOMAIN files} \ {created[i] : i \in DOMAIN created}
        listing == SeqOf(others) \o created
    IN  IF reversed THEN Reverse(listing) ELSE listing

\* fs::metadata(path).is_dir(): a regular file directly in the assets
\* folder is the path with no file below it
is_dir(name, files) == [dir |-> name, file |-> <<>>] \notin DOMAIN files

\* the body of `for entry in entries` of from_assets_to_resources:
\* SidAssetProcessor::assets_folder of each asset type, then process_assets
StageTwoEntry(folder_name, files, imgs, log, reversed, out) ==
    IF ~is_dir(folder_name, files)
    THEN [resources |-> out, panicked |-> FALSE, calls |-> <<>>,
          warnings |-> <<[entry |-> folder_name, kind |-> "not_a_folder"]>>]
    ELSE IF folder_name \in Namespaces
    THEN LET r == process_assets(folder_name,
                                 FolderListing(folder_name, files, log, reversed),
                                 files, imgs, out)
         IN  [resources |-> r.resources, panicked |-> r.panicked, calls |-> r.calls,
              warnings |-> <<>>]
    ELSE [resources |-> out, panicked |-> FALSE, calls |-> <<>>,
          warnings |-> <<[entry |-> folder_name, kind |-> "unknown_namespace"]>>]

---------------------------------------------------------------------------
(* Inputs                                                                  *)

GoodData == [frame |-> [x |-> 0, y |-> 0, w |-> 1, h |-> 1], duration |-> 100]
NegativeX == [GoodData EXCEPT !.frame.x = -1]
NegativeH == [GoodData EXCEPT !.frame.h = -1]
LongDuration == [GoodData EXCEPT !.duration = U16Max + 1]

NameA == <<"(", "a", ")">>          \* tag a
NameA2 == <<"(", " ", "a", ")">>    \* another frame name with tag a
NameB == <<"(", "b", ")">>          \* tag b
NameNoTag == <<"a">>                \* no parentheses

Frame(name, data) == [name |-> name, data |-> data]

FrameChoices ==
    {Frame(n, GoodData) : n \in {NameA, NameA2, NameB, NameNoTag}}
        \cup {Frame(NameA, NegativeX), Frame(NameB, LongDuration)}

\* frame lists of at most n frames, each its own run
RECURSIVE FrameListsUpTo(_)
FrameListsUpTo(n) ==
    IF n = 0 THEN {<<>>}
    ELSE LET shorter == FrameListsUpTo(n - 1)
         IN  shorter \cup {Append(l, [frame |-> f, reps |-> 1]) :
                              l \in {t \in shorter : Len(t) = n - 1}, f \in FrameChoices}

Run(name, reps) == [frame |-> Frame(name, GoodData), reps |-> reps]

\* frame lists around the 16-bit index limit: U16Max, U16Max + 1 and
\* U16Max + 2 frames, with one tag or with a change of tag
LongFrameLists ==
    { <<Run(NameA, U16Max - 1), Run(NameB, 1)>>,
      <<Run(NameA, U16Max + 1)>>,
      <<Run(NameA, U16Max), Run(NameB, 1)>>,
      <<Run(NameA, U16Max + 2)>>,
      <<Run(NameA, U16Max), Run(NameB, 2)>> }

\* meta.image values: a file next to the sheet, a file elsewhere, no file
HPng == <<"h", ".", "p", "n", "g">>
KPng == <<"/", "a", "/", "k", ".", "p", "n", "g">>
NoImage == <<>>
ParentDir == <<".", ".">>

Meta(image, w, h) ==
    [image |-> image, size |-> [w |-> w, h |-> h], format |-> "RGBA8888"]

MetaH == Meta(HPng, 4, 2)
MetaK == Meta(KPng, 4, 2)
MetaNoImage == Meta(NoImage, 4, 2)
RejectedMetas == {Meta(HPng, 0, 2), Meta(HPng, 4, -1), Meta(ParentDir, 4, 2)}

\* the JSON text of a frame's data, of a frame list and of a meta
FrameJson(data, complete) ==
    [type |-> "object", frame |-> data.frame, duration |-> data.duration,
     complete |-> complete]

FramesJson(runs) ==
    [type |-> "object",
     members |-> [r \in DOMAIN runs |->
                     [key |-> runs[r].frame.name,
                      value |-> FrameJson(runs[r].frame.data, TRUE),
                      reps |-> runs[r].reps]]]

MetaJson(meta, complete) ==
    [type |-> "object", image |-> meta.image, size |-> meta.size, format |-> meta.format,
     complete |-> complete]

Member(key, value) == [key |-> key, value |-> value]

\* a readable file holding a JSON object
ObjectFile(members) ==
    [readable |-> TRUE, json |-> Some([type |-> "object", members |-> members])]

JsonEntry(file) == [ext |-> Some("json"), file |-> file]

SheetEntry(frames, meta) ==
    JsonEntry(ObjectFile(<<Member("frames", FramesJson(frames)),
                           Member("meta", MetaJson(meta, TRUE))>>))

TwoRuns == <<Run(NameA, 1), Run(NameB, 1)>>

\* a frame entry that does not deserialize: a field missing, x not an i16,
\* a value that is no object
BadFrameValues ==
    { FrameJson(GoodData, FALSE),
      FrameJson([GoodData EXCEPT !.frame.x = I16Max + 1], TRUE),
      [type |-> "null"] }

\* entries that are no sheet file, and sheet files that do not parse
OtherEntries ==
    { [ext |-> Some("png"), file |-> [readable |-> TRUE, json |-> None]],
      [ext |-> None, file |-> [readable |-> TRUE, json |-> None]],
      JsonEntry([readable |-> FALSE, json |-> None]),
      JsonEntry([readable |-> TRUE, json |-> None]),
      JsonEntry([readable |-> TRUE, json |-> Some([type |-> "array"])]) }
        \cup { JsonEntry(ObjectFile(
                  <<Member("frames",
                           [type |-> "object",
                            members |-> <<[key |-> NameA, value |-> FrameJson(GoodData, TRUE),
                                           reps |-> 1],
                                          [key |-> NameB, value |-> bad, reps |-> 1]>>]),
                    Member("meta", MetaJson(MetaH, TRUE))>>)) : bad \in BadFrameValues }
        \cup { JsonEntry(ObjectFile(<<Member("frames", FramesJson(TwoRuns)),
                                      Member("meta", meta)>>)) :
                  meta \in {MetaJson(MetaH, FALSE), [type |-> "null"]} }

\* sheet files with other top-level members than frames and meta objects
UnusualEntries ==
    { JsonEntry(ObjectFile(<<Member("extra", [type |-> "null"]),
                             Member("frames", FramesJson(TwoRuns)),
                             Member("meta", MetaJson(MetaH, TRUE)),
                             Member("version", [type |-> "object", members |-> <<>>])>>)),
      JsonEntry(ObjectFile(<<Member("frames", FramesJson(TwoRuns))>>)),
      JsonEntry(ObjectFile(<<Member("meta", MetaJson(MetaH, TRUE))>>)),
      JsonEntry(ObjectFile(<<Member("frames", [type |-> "array"]),
                             Member("meta", MetaJson(MetaH, TRUE))>>)) }
        \cup { JsonEntry(ObjectFile(<<Member("frames", [type |-> t]),
                                      Member("meta", MetaJson(meta, TRUE))>>)) :
                  t \in {"null", "string"}, meta \in {MetaK, Meta(HPng, 0, 2)} }

SmallEntries ==
    {SheetEntry(fr, MetaH) : fr \in FrameListsUpTo(MaxRuns)}
        \cup {SheetEntry(fr, m) : fr \in {<<>>, TwoRuns},
                                  m \in RejectedMetas \cup {MetaK, MetaNoImage}}
        \cup {SheetEntry(<<[frame |-> Frame(NameA, NegativeH), reps |-> 1]>>, MetaH)}
        \cup OtherEntries \cup UnusualEntries

LongEntries == {SheetEntry(fr, MetaH) : fr \in LongFrameLists}

\* the other sheet of a two-sheet batch: one of another name, one of the same name
OtherName == SheetEntry(TwoRuns, MetaK)
SameName == SheetEntry(<<Run(NameA, 2)>>, MetaH)

Batches ==
    {<<e>> : e \in SmallEntries \cup LongEntries}
        \cup {<<e, c>> : e \in SmallEntries, c \in {OtherName, SameName}}
        \cup {<<SameName, e>> : e \in SmallEntries}

\* the batches run in an environment other than the usual one
FailingBatches ==
    {<<SheetEntry(fr, MetaH)>> : fr \in {<<>>, TwoRuns, <<Run(NameA, 1), Run(NameNoTag, 1)>>}}
        \cup {<<SheetEntry(TwoRuns, MetaH), OtherName>>,
              <<SheetEntry(TwoRuns, MetaH), SameName>>}

\* the image files: h.png in the sheets folder, k.png in /a
UsualImages ==
    (join(SheetsDir, HPng) :> Image(4, 2, "Rgba8")) @@ (KPng :> Image(2, 1, "Rgb8"))

\* h.png of another size or pixel format, not an image, or missing
OtherImages ==
    { (join(SheetsDir, HPng) :> img) @@ (KPng :> Image(2, 1, "Rgb8")) :
         img \in {Image(3, 1, "Rgb8"), Image(1, 2, "L8"), Image(2, 2, "Rgb16"),
                  TruncatedFile} }
        \cup {KPng :> Image(2, 1, "Rgb8")}

\* an animation asset file that no sheet of the run gives
StrayAnimation ==
    [kind |-> "animation", offset |-> 0, length |-> 1, name |-> <<"b">>,
     def_name |-> <<"h">>]

\* what the assets folder holds before the run, when it is not empty: a
\* regular file and a folder of another name; files that are not
\* compatible in a namespace folder; an asset file; files that do not open
\* or do not deserialize as the asset type of their folder
StrayAssets ==
    { ([dir |-> "notes.json", file |-> <<>>] :> StrayAnimation)
          @@ ([dir |-> "misc", file |-> <<"b">> \o JsonExt] :> StrayAnimation),
      ([dir |-> get_animation_namespace, file |-> <<"b">>] :> StrayAnimation)
          @@ ([dir |-> get_animation_namespace, file |-> <<"d">> \o JsonExt]
                 :> [kind |-> "dir"]),
      [dir |-> get_animation_namespace, file |-> <<"b">> \o JsonExt] :> StrayAnimation,
      [dir |-> get_animation_namespace, file |-> <<"b">> \o JsonExt]
          :> [kind |-> "malformed"],
      [dir |-> get_animation_def_namespace, file |-> <<"b">> \o JsonExt] :> StrayAnimation,
      [dir |-> get_animation_def_namespace, file |-> <<"b">> \o JsonExt]
          :> [kind |-> "unreadable"] }

\* the forms of the assets folder argument: an absolute path, a relative
\* path of a folder that exists, a relative path of one that does not yet
AssetsDirForms == {"absolute", "relative", "relative_missing"}

\* the environments of a run: the usual one, and those that differ from it
\* in one respect
Environments ==
    LET usual == [failing |-> {}, images |-> UsualImages, assets |-> <<>>,
                  assets_dir |-> "absolute"]
    IN  {usual}
          \cup {[usual EXCEPT !.failing = {ns}] : ns \in Namespaces}
          \cup {[usual EXCEPT !.images = imgs] : imgs \in OtherImages}
          \cup {[usual EXCEPT !.assets = f] : f \in StrayAssets}
          \cup {[usual EXCEPT !.assets_dir = form] : form \in AssetsDirForms}

MaxPackRuns == 2       \* most runs of the packer over the same assets folder

---------------------------------------------------------------------------
(* Specification of the pipeline                                           *)

Init ==
    /\ frame_name = <<>>
    /\ tag_result = [called |-> FALSE, value |-> None]
    /\ entries \in Batches
    /\ \E e \in Environments :
          /\ e.failing # {} \/ e.images # UsualImages \/ e.assets # <<>>
                \/ e.assets_dir # "absolute"
                => entries \in FailingBatches
          /\ failing = e.failing
          /\ images = e.images
          /\ assets = e.assets
          /\ assets_dir = e.assets_dir
    /\ next_entry = 1
    /\ pc = "stage1"
    /\ results = <<>>
    /\ writes = <<>>
    /\ reports = <<>>
    /\ pack_run = 0
    /\ folders = <<>>
    /\ next_folder = 1
    /\ packed = <<>>
    /\ warnings = <<>>
    /\ resources = <<>>

\* one iteration of the stage-one driver's loop over the directory entries
ProcessEntry ==
    /\ pc = "stage1"
    /\ next_entry <= Len(entries)
    /\ \E self_copy \in CopyOntoItself :
          \E r \in StageOneEntry(entries[next_entry], next_entry,
                                 [assets |-> assets, images |-> images, writes |-> writes,
                                  reports |-> reports],
                                 [failing |-> failing, assets_dir |-> assets_dir,
                                  self_copy |-> self_copy]) :
             /\ assets' = r.d.assets
             /\ images' = r.d.images
             /\ writes' = r.d.writes
             /\ reports' = r.d.reports
             /\ results' = Append(results, r.result)
             /\ pc' = IF r.panicked THEN "stage1_panicked" ELSE pc
    /\ next_entry' = next_entry + 1
    /\ UNCHANGED <<frame_name, tag_result, entries, failing, assets_dir, stage_two_vars>>

\* the directory iterator is exhausted: from_aseprite_sheets_to_sid_assets returns
EndOfDirectory ==
    /\ pc = "stage1"
    /\ next_entry > Len(entries)
    /\ pc' = "stage1_done"
    /\ UNCHANGED <<frame_name, tag_result, stage_one_vars, stage_two_vars>>

\* from_assets_to_resources up to its loop: read_dir of the assets folder;
\* the packer is run after the converter, and again over the same folders
StartPacking ==
    /\ pc = "stage1_done" \/ (pc = "stage2_done" /\ pack_run < MaxPackRuns)
    /\ \E reversed \in BOOLEAN : folders' = TopLevelListing(assets, writes, reversed)
    /\ pack_run' = pack_run + 1
    /\ next_folder' = 1
    /\ packed' = <<>>
    /\ warnings' = <<>>
    /\ pc' = "stage2"
    /\ UNCHANGED <<frame_name, tag_result, stage_one_vars, resources>>

\* one iteration of the stage-two driver's loop over the directory entries
PackEntry ==
    /\ pc = "stage2"
    /\ next_folder <= Len(folders)
    /\ \E reversed \in BOOLEAN :
          \E r \in {StageTwoEntry(folders[next_folder], assets, images, writes, reversed,
                                  resources)} :
             /\ resources' = r.resources
             /\ packed' = packed \o r.calls
             /\ warnings' = warnings \o r.warnings
             /\ pc' = IF r.panicked THEN "stage2_panicked" ELSE pc
    /\ next_folder' = next_folder + 1
    /\ UNCHANGED <<frame_name, tag_result, stage_one_vars, pack_run, folders>>

\* the directory iterator is exhausted: from_assets_to_resources returns
EndOfAssets ==
    /\ pc = "stage2"
    /\ next_folder > Len(folders)
    /\ pc' = "stage2_done"
    /\ UNCHANGED <<frame_name, tag_result, stage_one_vars, stage_two_vars>>

Next == ProcessEntry \/ EndOfDirectory \/ StartPacking \/ PackEntry \/ EndOfAssets

Spec == Init /\ [][Next]_vars

---------------------------------------------------------------------------
(* Specification of the tag extraction alone                               *)

InitName ==
    /\ frame_name \in StrsUpTo(MaxNameLen)
    /\ tag_result = [called |-> FALSE, value |-> None]
    /\ entries = <<>>
    /\ failing = {}
    /\ images = <<>>
    /\ assets_dir = "absolute"
    /\ next_entry = 1
    /\ pc = "stage2_done"
    /\ results = <<>>
    /\ writes = <<>>
    /\ assets = <<>>
    /\ reports = <<>>
    /\ pack_run = MaxPackRuns
    /\ folders = <<>>
    /\ next_folder = 1
    /\ packed = <<>>
    /\ warnings = <<>>
    /\ resources = <<>>

ExtractTag ==
    /\ ~tag_result.called
    /\ tag_result' = [called |-> TRUE,
                      value |-> from_aseprite_frame_name_to_animation_name(frame_name)]
    /\ UNCHANGED <<frame_name, pc, stage_one_vars, stage_two_vars>>

NextName == ExtractTag

SpecName == InitName /\ [][NextName]_vars

---------------------------------------------------------------------------
(* Vocabulary of the properties                                            *)

Handled == 1..Len(results)

\* a directory entry the driver parses, and one that parses
IsJsonEntry(e) == e.ext.some /\ e.ext.val = "json"

IsSheetFile(e) == IsJsonEntry(e) /\ from_json(e.file).ok

SheetOf(k) == from_json(entries[k].file).sheet

\* position (from 1) of the first occurrence of c in s at or after position from; 0 if none
RECURSIVE FirstIndexFrom(_, _, _)
FirstIndexFrom(s, c, from) ==
    IF from > Len(s) THEN 0
    ELSE IF s[from] = c THEN from
    ELSE FirstIndexFrom(s, c, from + 1)

\* the tag as specified: between the first '(' and the next ')' after it, trimmed
SpecifiedTag(s) ==
    LET open == FirstIndexFrom(s, "(", 1)
        close == IF open = 0 THEN 0 ELSE FirstIndexFrom(s, ")", open + 1)
    IN  IF open = 0 \/ close = 0 THEN None
        ELSE Some(Trim(SubSeq(s, open + 1, close - 1)))

TagOfFrame(sheet, i) == SpecifiedTag(FrameAt(sheet.frames, i).name)

\* the distinct frames of a sheet
FramesOf(sheet) == {sheet.frames[r].frame : r \in DOMAIN sheet.frames}

AllTagged(sheet) == \A f \in FramesOf(sheet) : SpecifiedTag(f.name).some

\* the indices at which a maximal run of equal tags starts
RunStarts(sheet) ==
    {i \in 0..(FramesLen(sheet.frames) - 1) :
        i = 0 \/ TagOfFrame(sheet, i) # TagOfFrame(sheet, i - 1)}

\* the elements of a finite set of numbers, in increasing order
RECURSIVE Ascending(_)
Ascending(S) ==
    IF S = {} THEN <<>>
    ELSE LET m == CHOOSE x \in S : \A y \in S : x <= y
         IN  <<m>> \o Ascending(S \ {m})

\* one animation per maximal run of equal tags, in frame order
MaximalRunAnimations(sheet, def_name) ==
    LET starts == Ascending(RunStarts(sheet))
        n == FramesLen(sheet.frames)
    IN  [j \in 1..Len(starts) |->
            [offset |-> starts[j],
             length |-> (IF j < Len(starts) THEN starts[j + 1] ELSE n) - starts[j],
             name |-> def_name \o <<"_">> \o TagOfFrame(sheet, starts[j]).val,
             def_name |-> def_name]]

GroupingRan(k) == results[k].grouping.some

EmittedBy(k) == results[k].grouping.val.emitted

\* the write_to_folder calls made while handling entry k for namespace ns
WritesOf(k, ns) == {i \in DOMAIN writes : writes[i].entry = k /\ writes[i].ns = ns}

---------------------------------------------------------------------------
---------------------------------------------------------------------------
(* C2: if any frame name of a sheet has no '(...)' pair, at whatever       *)
(* position, grouping is aborted for that sheet and zero animation assets  *)
(* are written for it, while the animation assets of the other sheets of   *)
(* the batch are all written.                                              *)
C2_UntaggedFrameWritesNoAnimation ==
    \A k \in Handled :
        (GroupingRan(k) /\ ~AllTagged(SheetOf(k)))
            => /\ results[k].grouping.val.outcome = "malformed_name"
               /\ WritesOf(k, get_animation_namespace) = {}
               /\ \A j \in Handled \ {k} :
                     (GroupingRan(j) /\ AllTagged(SheetOf(j)))
                         => Cardinality(WritesOf(j, get_animation_namespace))
                                = Cardinality(RunStarts(SheetOf(j)))

---------------------------------------------------------------------------
(* C3: for every input frame sequence the derived animation definition has *)
(* frame count = min(number of input frames, max animation frame count),   *)
(* its frame list holds only that many frames, and a frame beyond the cap  *)
(* never makes the derivation fail.                                        *)

FrameFits(f) ==
    \A v \in {f.data.frame.x, f.data.frame.y, f.data.frame.w, f.data.frame.h,
              f.data.duration} : v >= 0 /\ v <= U16Max

\* every frame at an index below i fits the 16-bit targets
FramesBelowFit(sheet, i) ==
    \A j \in 0..(min(i, FramesLen(sheet.frames)) - 1) : FrameFits(FrameAt(sheet.frames, j))

C3_DefinitionCappedAtMaxFrameCount ==
    \A k \in Handled :
        results[k].sprite.some
            => LET n == FramesLen(SheetOf(k).frames)
                   def == results[k].def
               IN  /\ def.some => /\ def.val.frame_count = min(n, MaxAnimFrameCount)
                                  /\ FramesLen(def.val.frames) = def.val.frame_count
                   /\ FramesBelowFit(SheetOf(k), MaxAnimFrameCount) => def.some

---------------------------------------------------------------------------
(* C4: across one run no two write operations target the same output path. *)
C4_WritePathsDistinct ==
    \A i, j \in DOMAIN writes : i # j => writes[i].path # writes[j].path

---------------------------------------------------------------------------
(* C5: the extracted tag is the substring strictly between the first '('   *)
(* of the name and the next ')' after it, trimmed; the result is "no tag"  *)
(* exactly when the name has no such pair.                                 *)
C5_TagBetweenFirstParenAndNextClose ==
    tag_result.called => tag_result.value = SpecifiedTag(frame_name)

---------------------------------------------------------------------------
(* C6: in every animation-definition resource the frame count field is     *)
(* followed by exactly `frame count` frame records of 5 u16 values, so the *)
(* resource is 10 + 10 * frame count bytes long, for every definition      *)
(* asset the packer accepts.                                               *)

\* the process_asset calls of the current run of the packer for namespace ns
\* that wrote a resource
Accepted(ns) == {i \in DOMAIN packed : packed[i].ns = ns /\ packed[i].ok}

\* the u16 at bytes 8..9 of an animation-definition resource
FrameCountField(stream) == stream[1].bytes[9] + 256 * stream[1].bytes[10]

C6_DefinitionResourceLength ==
    \A i \in Accepted(get_animation_def_namespace) :
        LET id == packed[i].id.val
        IN  /\ id \in DOMAIN resources
            /\ ByteLen(resources[id]) = 10 + 10 * FrameCountField(resources[id])

---------------------------------------------------------------------------
(* C7: every animation asset emitted by stage one lies inside its owning   *)
(* definition's frame sequence: offset + length <= frame count.            *)
C7_AnimationInsideDefinition ==
    \A k \in Handled :
        GroupingRan(k)
            => \A i \in DOMAIN EmittedBy(k) :
                  EmittedBy(k)[i].offset + EmittedBy(k)[i].length
                      <= results[k].def.val.frame_count

---------------------------------------------------------------------------
(* C8: for every sheet of more than 65,535 frames grouping reports the     *)
(* error and aborts: no animation asset is written for the sheet and no    *)
(* offset or length comes from wrapping or underflowing 16-bit arithmetic. *)
C8_TooManyFramesAborts ==
    \A k \in Handled :
        (GroupingRan(k) /\ FramesLen(SheetOf(k).frames) > U16Max)
            => /\ results[k].grouping.val.outcome = "too_many"
               /\ \E i \in DOMAIN reports :
                     reports[i] = [entry |-> k, kind |-> "too_many"]
               /\ WritesOf(k, get_animation_namespace) = {}
               /\ pc # "stage1_panicked"

---------------------------------------------------------------------------
(* C9: a sheet description whose width or height is not strictly positive  *)
(* is rejected before any asset is produced: handling it writes no file    *)
(* and makes no write call, the rejection is reported, and the driver goes *)
(* on to the next directory entry.                                         *)

AtEntry(P(_)) ==
    /\ pc = "stage1"
    /\ next_entry <= Len(entries)
    /\ IsSheetFile(entries[next_entry])
    /\ P(from_json(entries[next_entry].file).sheet)

NonPositiveSize(sheet) == sheet.meta.size.w <= 0 \/ sheet.meta.size.h <= 0

C9_NonPositiveSizeProducesNothing ==
    [][AtEntry(NonPositiveSize)
         => /\ assets' = assets
            /\ writes' = writes
            /\ results'[next_entry].sprite = None
            /\ reports' = Append(reports, [entry |-> next_entry, kind |-> "invalid_size"])
            /\ next_entry' = next_entry + 1
            /\ pc' = "stage1"]_vars

\* a rejected sheet was handled first and the next sheet's assets were written
C9_Witness ==
    /\ Len(results) = 2
    /\ IsSheetFile(entries[1])
    /\ SheetOf(1).meta.size.w = 0
    /\ \A i \in DOMAIN writes : writes[i].entry = 2
    /\ WritesOf(2, get_sprite_sheet_namespace) # {}
    /\ WritesOf(2, get_animation_namespace) # {}

---------------------------------------------------------------------------
(* C10: if any single frame's x, y, width, height or duration does not fit *)
(* the unsigned 16-bit target, the whole animation-definition derivation   *)
(* fails: no definition asset and no animation asset is written for the    *)
(* sheet, and the driver continues with the next entry; no derived         *)
(* definition holds a value other than the source's.                       *)

Derivable(sheet) ==
    /\ sheet.meta.size.w > 0 /\ sheet.meta.size.h > 0
    /\ file_stem(join(SheetsDir, sheet.meta.image)).some

HasUnfitFrame(sheet) == Derivable(sheet) /\ \E f \in FramesOf(sheet) : ~FrameFits(f)

FilesUnder(f, dirs) == [p \in {q \in DOMAIN f : q.dir \in dirs} |-> f[p]]

ValuesKept(sheet, def) ==
    /\ Len(def.frames) = Len(sheet.frames)
    /\ \A r \in DOMAIN def.frames :
          LET src == sheet.frames[r].frame.data
              dst == def.frames[r].frame
          IN  /\ dst.pos.x = src.frame.x /\ dst.pos.y = src.frame.y
              /\ dst.dims.width = src.frame.w /\ dst.dims.height = src.frame.h
              /\ dst.duration = src.duration

C10_UnfitValueFailsWholeDefinition ==
    [][/\ AtEntry(HasUnfitFrame)
          => /\ results'[next_entry].def = None
             /\ results'[next_entry].grouping = None
             /\ \A i \in (Len(writes) + 1)..Len(writes') :
                   writes'[i].ns = get_sprite_sheet_namespace
             /\ FilesUnder(assets', {get_animation_def_namespace, get_animation_namespace})
                   = FilesUnder(assets, {get_animation_def_namespace, get_animation_namespace})
             /\ next_entry' = next_entry + 1
             /\ pc' = "stage1"
       /\ (AtEntry(Derivable) /\ results'[next_entry].def.some)
          => ValuesKept(SheetOf(next_entry), results'[next_entry].def.val)]_vars

\* a sheet with an unfit frame got its sprite sheet but no definition, and the
\* next sheet got its definition
C10_Witness ==
    /\ Len(results) = 2
    /\ IsSheetFile(entries[1])
    /\ HasUnfitFrame(SheetOf(1))
    /\ results[1].sprite.some
    /\ ~results[1].def.some
    /\ WritesOf(1, get_animation_def_namespace) = {}
    /\ WritesOf(2, get_animation_def_namespace) # {}

---------------------------------------------------------------------------
(* C11: for the assets stage one derives from one sheet and stage two then *)
(* packs, cross-references resolve: the sheet identifier embedded in the   *)
(* animation-definition resource equals the identifier and file name of    *)
(* that sheet's sprite-sheet resource, and the definition identifier       *)
(* embedded in every animation resource equals the identifier and file     *)
(* name of the animation-definition resource; each identifier is the one   *)
(* generated from the name stored in the intermediate file.                *)

\* the unsigned integer that little-endian bytes stand for
RECURSIVE LeValue(_)
LeValue(bytes) == IF bytes = <<>> THEN 0 ELSE Head(bytes) + 256 * LeValue(Tail(bytes))

\* the n-byte field at offset off of the header of a resource
Field(stream, off, n) == LeValue(SubSeq(stream[1].bytes, off + 1, off + n))

\* the calls of the current run that packed the asset file of that name
PackedAt(ns, name) ==
    {i \in Accepted(ns) : packed[i].path = AssetPath(ns, name \o JsonExt)}

\* the resource file a call wrote
ResourceOf(i) == resources[packed[i].id.val]

C11_CrossReferencesResolve ==
    \A k \in Handled :
        results[k].def.some
            => LET sprite == results[k].sprite.val
                   def == results[k].def.val
                   emitted == IF GroupingRan(k) THEN EmittedBy(k) ELSE <<>>
               IN  \A i \in PackedAt(get_animation_def_namespace, def.name) :
                      /\ Field(ResourceOf(i), 0, 4) = packed[i].id.val
                      /\ Field(ResourceOf(i), 4, 4)
                            = generate_sprite_sheet_id(assets[packed[i].path].sheet_name)
                      /\ \A j \in PackedAt(get_sprite_sheet_namespace, sprite.name) :
                            /\ Field(ResourceOf(i), 4, 4) = packed[j].id.val
                            /\ Field(ResourceOf(j), 0, 4) = packed[j].id.val
                      /\ \A e \in DOMAIN emitted :
                            \A j \in PackedAt(get_animation_namespace, emitted[e].name) :
                               /\ Field(ResourceOf(j), 4, 4) = packed[i].id.val
                               /\ Field(ResourceOf(j), 0, 4) = packed[j].id.val
                               /\ Field(ResourceOf(j), 4, 4)
                                     = generate_animation_def_id(
                                           assets[packed[j].path].def_name)

\* the sprite sheet, the definition and two animations of one sheet are packed
C11_Witness ==
    /\ pc = "stage2_done"
    /\ \E k \in Handled :
          /\ GroupingRan(k)
          /\ Len(EmittedBy(k)) = 2
          /\ PackedAt(get_sprite_sheet_namespace, results[k].sprite.val.name) # {}
          /\ PackedAt(get_animation_def_namespace, results[k].def.val.name) # {}
          /\ \A e \in 1..2 : PackedAt(get_animation_namespace, EmittedBy(k)[e].name) # {}

---------------------------------------------------------------------------
(* C12: in every sprite-sheet resource written, the raw pixel byte count   *)
(* field equals width * height * channel count of the decoded image and    *)
(* equals the number of pixel bytes that follow it, and the width and      *)
(* height fields are those of the source image.                            *)

\* the image file a sprite-sheet asset file refers to, where stage one found it
SourceImage(asset) == images[join(SheetsDir, asset.image_path)]

\* the channels of the two pixel formats a resource can have
ChannelsOfFormat(color) == IF color = "Rgb8" THEN 3 ELSE 4

C12_PixelByteCount ==
    \A i \in Accepted(get_sprite_sheet_namespace) :
        LET r == ResourceOf(i)
            source == SourceImage(assets[packed[i].path])
        IN  /\ Field(r, 4, 4) = source.width
            /\ Field(r, 8, 4) = source.height
            /\ Field(r, 12, 1) = ChannelsOfFormat(source.color)
            /\ Field(r, 17, 8) = source.width * source.height * Field(r, 12, 1)
            /\ ByteLen(r) - Len(r[1].bytes) = Field(r, 17, 8)
            /\ Len(r[1].bytes) = 4 + 4 + 4 + 1 + 4 + 8

\* a 3 x 1 RGB8 image was packed: 9 pixel bytes
C12_Witness ==
    \E i \in Accepted(get_sprite_sheet_namespace) :
        /\ SourceImage(assets[packed[i].path]) = Image(3, 1, "Rgb8")
        /\ Field(ResourceOf(i), 17, 8) = 9
        /\ ByteLen(ResourceOf(i)) = 34

---------------------------------------------------------------------------
(* C13: packing is deterministic and idempotent: packing the same          *)
(* animation-definition and animation intermediate assets a second time    *)
(* writes the same file names with byte-identical contents, so no step of  *)
(* a later run of the packer changes the output folder.                    *)
C13_RepackingChangesNothing ==
    [][pack_run >= 2 => resources' = resources]_vars

\* a second run has packed definitions and animations again
C13_Witness ==
    /\ pack_run = 2
    /\ pc = "stage2_done"
    /\ Accepted(get_animation_def_namespace) # {}
    /\ Cardinality(Accepted(get_animation_namespace)) >= 2

---------------------------------------------------------------------------
(* C14: for every sheet description with positive width and height that    *)
(* is accepted, the derived sprite-sheet asset's name equals the file stem *)
(* of the image reference, whether the image path is absolute or relative; *)
(* the animation definition derived from it carries that same name as its  *)
(* own name and as its sheet name.                                         *)
C14_NameIsStemOfImageReference ==
    \A k \in Handled :
        results[k].sprite.some
            => /\ Some(results[k].sprite.val.name) = file_stem(SheetOf(k).meta.image)
               /\ results[k].def.some
                     => /\ results[k].def.val.name = results[k].sprite.val.name
                        /\ results[k].def.val.sheet_name = results[k].sprite.val.name

---------------------------------------------------------------------------
(* C15: in stage one a failure scoped to one sheet file (unreadable or     *)
(* malformed file, rejected dimensions, unresolvable name, value overflow, *)
(* malformed frame name, failed write) is reported and ends the processing *)
(* of that file only: nothing more is written for the file after the       *)
(* failure, every remaining .json entry is still processed and the driver  *)
(* reaches the end of the directory.                                       *)

\* the write_to_folder calls made while handling entry k
AllWritesOf(k) == {i \in DOMAIN writes : writes[i].entry = k}

\* the file of entry k failed before anything was derived from it
FailedBeforeDeriving(k) ==
    /\ results[k].parsed.some
    /\ ~results[k].sprite.some

\* deriving the definition or grouping the frames of entry k failed
FailedDeriving(k) ==
    /\ results[k].sprite.some
    /\ \/ ~results[k].def.some
       \/ results[k].grouping.val.outcome \notin {"done", "no_animation"}

FailedWrites(k) == {i \in AllWritesOf(k) : ~writes[i].ok}

Reported(k) == \E i \in DOMAIN reports : reports[i].entry = k

C15_FailureEndsThatFileOnly ==
    /\ pc # "stage1_panicked"
    /\ pc # "stage1" => Len(results) = Len(entries)
    /\ \A k \in Handled :
          IsJsonEntry(entries[k])
             => /\ FailedBeforeDeriving(k) \/ FailedDeriving(k) \/ FailedWrites(k) # {}
                    => Reported(k)
                /\ FailedBeforeDeriving(k) => AllWritesOf(k) = {}
                /\ \A i \in FailedWrites(k) : \A j \in AllWritesOf(k) : j <= i

---------------------------------------------------------------------------
(* C16: in stage two a failure to open, deserialize or serialize one       *)
(* compatible intermediate file aborts the whole run: no file after it in  *)
(* the same namespace folder and no later namespace folder is packed,      *)
(* while the resources written before the failure stay in the output       *)
(* folder.                                                                 *)
C16_FailureAbortsTheRun ==
    /\ \A i \in DOMAIN packed :
          /\ packed[i].ok => packed[i].id.val \in DOMAIN resources
          /\ ~packed[i].ok => i = Len(packed) /\ pc = "stage2_panicked"
    /\ pc = "stage2_panicked" => packed # <<>> /\ ~packed[Len(packed)].ok

\* a run aborted after a resource was written, with a file of the same
\* folder and a namespace folder still to come
C16_Witness ==
    /\ pc = "stage2_panicked"
    /\ Len(packed) >= 2
    /\ \E p \in DOMAIN assets :
          /\ p.dir = packed[Len(packed)].ns
          /\ compatible(p, assets)
          /\ \A i \in DOMAIN packed : packed[i].path # p
    /\ next_folder <= Len(folders)
    /\ folders[next_folder] \in Namespaces
    /\ \E p \in DOMAIN assets : p.dir = folders[next_folder] /\ compatible(p, assets)

---------------------------------------------------------------------------
(* C17: parsing one sheet file either returns a sheet holding every entry  *)
(* of 'frames' or returns an error and no sheet: a frame entry (or the     *)
(* meta object) that fails to deserialize, invalid JSON and a non-object   *)
(* JSON root each give a malformed-input error, an unreadable file gives   *)
(* an I/O error, and unrecognized top-level keys are ignored without       *)
(* error.                                                                  *)

\* the values of the top-level members named key of the file's JSON object
MembersNamed(file, key) ==
    {file.json.val.members[i].value :
        i \in {j \in DOMAIN file.json.val.members : file.json.val.members[j].key = key}}

\* the entries of the file's 'frames' objects
FrameEntries(file) ==
    UNION {{v.members[i] : i \in DOMAIN v.members} :
              v \in {w \in MembersNamed(file, "frames") : w.type = "object"}}

\* what the claim makes a malformed input
MalformedFile(file) ==
    \/ ~file.json.some
    \/ file.json.val.type # "object"
    \/ \E e \in FrameEntries(file) : ~DeserializeFrameData(e.value).some
    \/ \E m \in MembersNamed(file, "meta") : ~DeserializeMeta(m).some

\* the frames the sheet holds, as [name, reps] in order
HeldEntries(sheet) ==
    [i \in DOMAIN sheet.frames |->
        [key |-> sheet.frames[i].frame.name, reps |-> sheet.frames[i].reps]]

\* the entries of the one 'frames' object of the file, as [name, reps] in order
WrittenEntries(file) ==
    LET objs == {w \in MembersNamed(file, "frames") : w.type = "object"}
    IN  IF objs = {} THEN <<>>
        ELSE LET v == CHOOSE w \in objs : TRUE
             IN  [i \in DOMAIN v.members |-> [key |-> v.members[i].key,
                                             reps |-> v.members[i].reps]]

C17_SheetOrError ==
    \A k \in Handled :
        IsJsonEntry(entries[k])
           => LET file == entries[k].file
                  r == results[k].parsed.val
              IN  /\ results[k].parsed.some
                  /\ IF ~file.readable
                     THEN r = [ok |-> FALSE, error |-> "io"]
                     ELSE IF MalformedFile(file)
                     THEN r = [ok |-> FALSE, error |-> "malformed"]
                     ELSE /\ r.ok
                          /\ DOMAIN r = {"ok", "sheet"}
                          /\ HeldEntries(r.sheet) = WrittenEntries(file)

\* a file with a frame entry that deserializes and one that does not was
\* parsed, and gave no sheet
C17_Witness ==
    \E k \in Handled :
        /\ IsJsonEntry(entries[k])
        /\ entries[k].file.readable
        /\ entries[k].file.json.some
        /\ entries[k].file.json.val.type = "object"
        /\ \E e, g \in FrameEntries(entries[k].file) :
              /\ DeserializeFrameData(e.value).some
              /\ ~DeserializeFrameData(g.value).some
        /\ ~results[k].parsed.val.ok

---------------------------------------------------------------------------
(* C18: for each sheet the stage-one driver processes, the writes happen   *)
(* in a fixed order: the sprite-sheet asset before the animation           *)
(* definition, the definition before any animation, the animations in      *)
(* increasing offset order; no asset of a later sheet is written before    *)
(* the last write for the current sheet.                                   *)

\* the place of a namespace in the order of the writes of one sheet
WriteRank(ns) ==
    IF ns = get_sprite_sheet_namespace THEN 1
    ELSE IF ns = get_animation_def_namespace THEN 2
    ELSE 3

C18_WritesInFixedOrder ==
    \A i, j \in DOMAIN writes :
        i < j
           => /\ writes[i].entry <= writes[j].entry
              /\ writes[i].entry = writes[j].entry
                    => /\ WriteRank(writes[i].ns) <= WriteRank(writes[j].ns)
                       /\ WriteRank(writes[i].ns) = WriteRank(writes[j].ns)
                             => /\ writes[i].ns = get_animation_namespace
                                /\ writes[i].asset.offset < writes[j].asset.offset

\* a sheet with its three kinds of assets and two animations written, then
\* the assets of a second sheet
C18_Witness ==
    /\ Cardinality(WritesOf(1, get_sprite_sheet_namespace)) = 1
    /\ Cardinality(WritesOf(1, get_animation_def_namespace)) = 1
    /\ Cardinality(WritesOf(1, get_animation_namespace)) >= 2
    /\ WritesOf(2, get_sprite_sheet_namespace) # {}
    /\ WritesOf(2, get_animation_namespace) # {}

---------------------------------------------------------------------------
(* C19: the stage-two driver packs only regular files with the 'json'      *)
(* extension found directly inside a subfolder whose name is one of the    *)
(* three namespace labels, using the asset type of that namespace; entries *)
(* of the input folder that are not directories and subfolders with any    *)
(* other name are skipped with a warning and produce no resource, and      *)
(* processing continues with the next entry.                               *)

\* the entries of the assets folder the current run has gone through
Visited == {folders[i] : i \in 1..(next_folder - 1)}

WarnedAs(name, kind) ==
    \E i \in DOMAIN warnings : warnings[i] = [entry |-> name, kind |-> kind]

\* a regular file named *.json directly inside a folder named as a namespace
PackableFile(p) ==
    /\ p \in DOMAIN assets
    /\ p.dir \in Namespaces
    /\ p.file # <<>>
    /\ assets[p].kind # "dir"
    /\ Len(p.file) > Len(JsonExt)
    /\ SubSeq(p.file, Len(p.file) - Len(JsonExt) + 1, Len(p.file)) = JsonExt

C19_OnlyNamespaceFoldersArePacked ==
    /\ \A i \in DOMAIN packed :
          /\ PackableFile(packed[i].path)
          /\ packed[i].ns = packed[i].path.dir
    /\ \A name \in Visited :
          /\ [dir |-> name, file |-> <<>>] \in DOMAIN assets
                => WarnedAs(name, "not_a_folder")
          /\ [dir |-> name, file |-> <<>>] \notin DOMAIN assets /\ name \notin Namespaces
                => WarnedAs(name, "unknown_namespace")
    /\ \A i \in DOMAIN warnings :
          /\ warnings[i].entry \in Visited
          /\ warnings[i].entry \notin Namespaces
                \/ [dir |-> warnings[i].entry, file |-> <<>>] \in DOMAIN assets
    /\ pack_run = 1
          => DOMAIN resources
                = {packed[i].id.val : i \in {j \in DOMAIN packed : packed[j].ok}}
    /\ pc = "stage2_done"
          => \A p \in DOMAIN assets :
                PackableFile(p) /\ [dir |-> p.dir, file |-> <<>>] \notin DOMAIN assets
                   => \E i \in DOMAIN packed : packed[i].path = p

\* a run that skipped a regular file and a folder of another name, and
\* packed the files of the namespace folders
C19_Witness ==
    /\ pc = "stage2_done"
    /\ \E i, j \in DOMAIN warnings :
          /\ warnings[i].kind = "not_a_folder"
          /\ warnings[j].kind = "unknown_namespace"
    /\ \A ns \in Namespaces : Accepted(ns) # {}

---------------------------------------------------------------------------
(* C20: for a sheet with n frames, 1 <= n <= 65,535, whose frame names all *)
(* carry a tag, the animation assets emitted by grouping, in emission      *)
(* order, partition [0, n): the first has offset 0, each next offset is    *)
(* the previous offset + length, every length is at least 1, the lengths   *)
(* sum to n, and the last run is emitted even when it is the only run; a   *)
(* sheet with zero frames emits no animation asset and no error.           *)

\* the assets e, in order, cover [0, n) without gap or overlap
Partitions(e, n) ==
    /\ Len(e) >= 1
    /\ e[1].offset = 0
    /\ \A j \in DOMAIN e :
          /\ e[j].length >= 1
          /\ j > 1 => e[j].offset = e[j - 1].offset + e[j - 1].length
    /\ e[Len(e)].offset + e[Len(e)].length = n

---------------------------------------------------------------------------
(* C21: if writing the sprite-sheet asset fails, the stage-one driver      *)
(* reports the error and still derives and writes the animation definition *)
(* and the animations of that sheet, so a definition file can exist        *)
(* without the sprite-sheet file it references; likewise a failed          *)
(* definition write or a failed animation write does not stop the          *)
(* remaining animation assets from being written.                          *)

\* the reports of a failed write_to_folder made while handling entry k
WriteReports(k) == {i \in DOMAIN reports : reports[i] = [entry |-> k, kind |-> "io"]}

C21_FailedWriteStopsNothing ==
    \A k \in Handled :
        results[k].sprite.some
           => /\ Cardinality(WritesOf(k, get_sprite_sheet_namespace)) = 1
              /\ Cardinality(WriteReports(k)) = Cardinality(FailedWrites(k))
              /\ results[k].def.some
                    => LET anims == Ascending(WritesOf(k, get_animation_namespace))
                       IN  /\ Cardinality(WritesOf(k, get_animation_def_namespace)) = 1
                           /\ Len(anims) = Len(EmittedBy(k))
                           /\ \A j \in DOMAIN anims :
                                 writes[anims[j]].asset = EmittedBy(k)[j]
              /\ \A i \in AllWritesOf(k) :
                    writes[i].ns # get_sprite_sheet_namespace /\ writes[i].ns \notin failing
                       => writes[i].ok /\ writes[i].path \in DOMAIN assets

\* the sprite-sheet write of the first sheet failed, and its definition and
\* an animation are in the assets folder without the sprite-sheet file
C21_Witness ==
    /\ Len(results) >= 1
    /\ results[1].sprite.some
    /\ \E i \in WritesOf(1, get_sprite_sheet_namespace) :
          /\ ~writes[i].ok
          /\ writes[i].path \notin DOMAIN assets
    /\ \E i \in WritesOf(1, get_animation_def_namespace) :
          writes[i].ok /\ writes[i].path \in DOMAIN assets
    /\ \E i \in WritesOf(1, get_animation_namespace) :
          writes[i].ok /\ writes[i].path \in DOMAIN assets

---------------------------------------------------------------------------
(* C22: when the top-level 'frames' value of a sheet file is present but   *)
(* is not a JSON object, parsing succeeds with an empty frame list instead *)
(* of a malformed-input error; with valid metadata such a sheet yields a   *)
(* sprite-sheet asset and an animation-definition asset with frame count 0 *)
(* and an empty frame list, and no animation asset.                        *)

\* a readable file holding a JSON object whose 'frames' is no object, and
\* that is not malformed otherwise
OtherFrames(file) ==
    /\ file.readable
    /\ file.json.some
    /\ file.json.val.type = "object"
    /\ MembersNamed(file, "frames") # {}
    /\ \A v \in MembersNamed(file, "frames") : v.type # "object"
    /\ \A m \in MembersNamed(file, "meta") : DeserializeMeta(m).some

\* the file has a meta of positive size whose image names a file
ValidMeta(file) ==
    \E m \in MembersNamed(file, "meta") :
        /\ DeserializeMeta(m).some
        /\ m.size.w > 0 /\ m.size.h > 0
        /\ file_stem(m.image).some

C22_OtherFramesGiveEmptySheet ==
    \A k \in Handled :
        IsJsonEntry(entries[k]) /\ OtherFrames(entries[k].file)
           => /\ results[k].parsed.val.ok
              /\ results[k].parsed.val.sheet.frames = <<>>
              /\ ValidMeta(entries[k].file)
                    => /\ results[k].sprite.some
                       /\ Cardinality(WritesOf(k, get_sprite_sheet_namespace)) = 1
                       /\ results[k].def.some
                       /\ results[k].def.val.frame_count = 0
                       /\ results[k].def.val.frames = <<>>
                       /\ Cardinality(WritesOf(k, get_animation_def_namespace)) = 1
                       /\ EmittedBy(k) = <<>>
                       /\ WritesOf(k, get_animation_namespace) = {}

\* a sheet file with valid metadata whose 'frames' is no object was handled
\* and its definition written
C22_Witness ==
    \E k \in Handled :
        /\ IsJsonEntry(entries[k])
        /\ OtherFrames(entries[k].file)
        /\ ValidMeta(entries[k].file)
        /\ \E i \in WritesOf(k, get_animation_def_namespace) :
              writes[i].ok /\ writes[i].asset.frame_count = 0

====
